---- MODULE Spec2Model ----
(***************************************************************************)
(* State-machine model of collector/devstat_freebsd.go: the devstat        *)
(* collector (devstatCollector.Update with the cgo helpers _get_ndevs and  *)
(* _get_stats) and the cpu collector (statCollector.Update with            *)
(* getCPUTimes).  The kernel is the environment: its device list, the      *)
(* outcome of its calls, the clock record and the cp_times blob are state  *)
(* that kernel events change between the steps of a collection cycle.      *)
(***************************************************************************)
EXTENDS Integers, Sequences, FiniteSets, TLC

(***************************************************************************)
(* Bounds of the model.                                                    *)
(***************************************************************************)
\* Most devices the kernel lists; device identities are 1..MaxDevs.
MaxDevs == 3
\* Most native integers in the kern.cp_times blob.
MaxInts == 25
\* Most trailing bytes of the blob after its last whole integer.
MaxTail == 1
\* Largest value of the identifier base_idx.
MaxBaseIdx == 1
\* Most kernel events (attach, detach, failure mode, clock, blob) in a run.
MaxKernelEvents == 1

(***************************************************************************)
(* Program constants.                                                      *)
(***************************************************************************)
\* const states = 5
states == 5
\* unsafe.Sizeof(int(0)) on a 64-bit platform.
NativeWidth == 8
\* CP_USER .. CP_IDLE of <sys/resource.h>, used as index offsets.
CP_USER == 0
CP_NICE == 1
CP_SYS == 2
CP_INTR == 3
CP_IDLE == 4
\* The sentinels of _get_ndevs.
NdevsQueryFailed == -1
NdevsAllocFailed == -2

VARIABLES
  \* ---- kernel (environment) ----
  kdevs,      \* the kernel's device list: a sequence of device identities
  kmode,      \* "ok" | "getdevs_fail" | "calloc_fail": what calloc and devstat_getdevs do
  kclock,     \* the kern.clockrate record: [hz, stathz]
  kcp,        \* the kern.cp_times blob: [words, tail]
  ksysctl,    \* "ok" | "clockrate_fail" | "cp_times_fail"
  kevents,    \* number of kernel events so far
  \* ---- devstatCollector.Update ----
  dpc,        \* "idle" | "loop" | "returned" | "crashed"
  count,      \* count := C._get_ndevs()
  i,          \* the loop variable
  devCh,      \* the samples sent on ch in the current cycle
  devErr,     \* the error the cycle returned, "nil" for none
  dqueries,   \* history: the calls of _get_stats in the current cycle, in order
  denum,      \* history: the device list when the cycle enumerated it
  dfail,      \* history: a kernel call or a device lookup failed in the current cycle
  dstable,    \* history: no kernel event since the current cycle began
  dprev,      \* history: <<result>> of the previous cycle if no kernel event since it began
  \* ---- statCollector.Update / getCPUTimes ----
  base_idx,   \* the identifier base_idx of statCollector.Update
  cpc,        \* "idle" | "emit" | "returned" | "panicked"
  cpuTimes,   \* cpuTimes, err := getCPUTimes()
  cpuCh,      \* the samples sent on ch in the current cycle
  cpuErr,     \* the error the cycle returned, "nil" for none
  cclock,     \* history: the clock record the current cycle read
  craw,       \* history: the blob the current cycle read
  cstable,    \* history: no kernel event since the current cycle began
  cprev       \* history: <<result>> of the previous cycle if no kernel event since it began

kvars == <<kdevs, kmode, kclock, kcp, ksysctl, kevents>>
dvars == <<dpc, count, i, devCh, devErr, dqueries, denum, dfail, dstable, dprev>>
cvars == <<base_idx, cpc, cpuTimes, cpuCh, cpuErr, cclock, craw, cstable, cprev>>
vars == <<kvars, dvars, cvars>>

(***************************************************************************)
(* Formatting.                                                             *)
(***************************************************************************)
Digits == <<"0", "1", "2", "3", "4", "5", "6", "7", "8", "9">>

\* strconv.Itoa and the %d verb: decimal digits, most significant first.
RECURSIVE Itoa(_)
Itoa(n) ==
  IF n < 0 THEN "-" \o Itoa(-n)
  ELSE IF n < 10 THEN Digits[n + 1]
  ELSE Itoa(n \div 10) \o Digits[(n % 10) + 1]

\* fmt.Sprintf("%s%d", C.GoString(&stats.device[0]), stats.unit)
DeviceLabel(stats) == stats.device \o Itoa(stats.unit)

(***************************************************************************)
(* The metric descriptors and the samples built from them.                 *)
(***************************************************************************)
devstatSubsystem == "devstat"

NewDevstatCollector ==
  [bytes     |-> [subsystem |-> devstatSubsystem, name |-> "bytes_total",
                  variableLabels |-> <<"device", "type">>],
   transfers |-> [subsystem |-> devstatSubsystem, name |-> "transfers_total",
                  variableLabels |-> <<"device", "type">>],
   duration  |-> [subsystem |-> devstatSubsystem, name |-> "duration_seconds_total",
                  variableLabels |-> <<"device", "type">>],
   busyTime  |-> [subsystem |-> devstatSubsystem, name |-> "busy_time_seconds_total",
                  variableLabels |-> <<"device">>],
   blocks    |-> [subsystem |-> devstatSubsystem, name |-> "blocks_transferred_total",
                  variableLabels |-> <<"device">>]]

NewStatCollector ==
  [cpu |-> [subsystem |-> "cpu", name |-> "seconds_total",
            variableLabels |-> <<"cpu", "mode">>]]

\* typedDesc.mustNewConstMetric: one sample of the descriptor, carrying the
\* value and the label values in the order given.
mustNewConstMetric(desc, value, labelValues) ==
  [subsystem |-> desc.subsystem, name |-> desc.name, value |-> value,
   labels |-> labelValues]

(***************************************************************************)
(* The kernel's devices.                                                   *)
(***************************************************************************)
DevIds == 1..MaxDevs

\* Sequences over S without repetition, of length at most n.
RECURSIVE DistinctSeqs(_, _)
DistinctSeqs(S, n) ==
  IF n = 0 THEN {<<>>}
  ELSE LET shorter == DistinctSeqs(S, n - 1)
           ext == {q \in shorter \X S :
                     /\ Len(q[1]) = n - 1
                     /\ \A a \in 1..Len(q[1]) : q[1][a] # q[2]}
       IN shorter \cup {Append(q[1], q[2]) : q \in ext}

DevLists == DistinctSeqs(DevIds, MaxDevs)

KernelModes == {"ok", "getdevs_fail", "calloc_fail"}

\* What the kernel holds for device d: its name, its unit and its lifetime
\* counters (durations and busy time in milliseconds).
KernelDevice(d) ==
  [device_name |-> IF d % 2 = 1 THEN "ada" ELSE "da",
   unit_number |-> d \div 2,
   bytes_read |-> 100 * d + 1, bytes_write |-> 100 * d + 2, bytes_free |-> 100 * d + 3,
   transfers_other |-> 100 * d + 4, transfers_read |-> 100 * d + 5,
   transfers_write |-> 100 * d + 6, transfers_free |-> 100 * d + 7,
   duration_other |-> 100 * d + 8, duration_read |-> 100 * d + 9,
   duration_write |-> 100 * d + 10, duration_free |-> 100 * d + 11,
   busy_time_ms |-> 1000 * d + 500,
   blocks |-> 100 * d + 13]

(***************************************************************************)
(* The cgo helpers.                                                        *)
(***************************************************************************)
\* int _get_ndevs(): -2 when calloc fails, -1 when devstat_getdevs fails,
\* else the number of devices.
_get_ndevs ==
  IF kmode = "calloc_fail" THEN NdevsAllocFailed
  ELSE IF kmode = "getdevs_fail" THEN NdevsQueryFailed
  ELSE Len(kdevs)

\* The Stats struct _get_stats fills from a devinfo entry: the long double
\* busy time is assigned to a long, which drops the fraction of a second.
StatsOf(dev) ==
  [device |-> dev.device_name,
   unit |-> dev.unit_number,
   bytes |-> [read |-> dev.bytes_read, write |-> dev.bytes_write,
              free |-> dev.bytes_free],
   transfers |-> [other |-> dev.transfers_other, read |-> dev.transfers_read,
                  write |-> dev.transfers_write, free |-> dev.transfers_free],
   duration |-> [other |-> dev.duration_other, read |-> dev.duration_read,
                 write |-> dev.duration_write, free |-> dev.duration_free],
   busyTime |-> dev.busy_time_ms \div 1000,
   blocks |-> dev.blocks]

\* What a read outside the device array may find: here zero-filled memory.
UndefinedDevice ==
  [device_name |-> "", unit_number |-> 0,
   bytes_read |-> 0, bytes_write |-> 0, bytes_free |-> 0,
   transfers_other |-> 0, transfers_read |-> 0,
   transfers_write |-> 0, transfers_free |-> 0,
   duration_other |-> 0, duration_read |-> 0,
   duration_write |-> 0, duration_free |-> 0,
   busy_time_ms |-> 0, blocks |-> 0]

\* The device list a call of devstat_getdevs inside _get_stats fetches now:
\* the result of calloc and of devstat_getdevs is not checked there, so a
\* failed call leaves no list at all.
FetchedDevs == IF kmode = "ok" THEN kdevs ELSE <<>>

\* Stats _get_stats(int i): the outcomes of one call.  devices[idx] is read
\* without comparing idx with numdevs; outside the fetched list the read is
\* undefined: the process faults, or the call returns what memory held.
_get_stats(idx) ==
  IF idx < Len(FetchedDevs)
  THEN {[kind |-> "stats", stats |-> StatsOf(KernelDevice(FetchedDevs[idx + 1]))]}
  ELSE {[kind |-> "fault", stats |-> StatsOf(UndefinedDevice)],
        [kind |-> "stats", stats |-> StatsOf(UndefinedDevice)]}

(***************************************************************************)
(* devstatCollector.Update                                                 *)
(***************************************************************************)
\* The sends of one loop iteration with a send of the free byte counter added.
DevstatSamplesWithFree(stats) ==
  LET c == NewDevstatCollector
      device == DeviceLabel(stats)
  IN << mustNewConstMetric(c.bytes, stats.bytes.read, <<device, "read">>),
        mustNewConstMetric(c.bytes, stats.bytes.write, <<device, "write">>),
        mustNewConstMetric(c.bytes, stats.bytes.free, <<device, "free">>),
        mustNewConstMetric(c.transfers, stats.transfers.other, <<device, "other">>),
        mustNewConstMetric(c.transfers, stats.transfers.read, <<device, "read">>),
        mustNewConstMetric(c.transfers, stats.transfers.write, <<device, "write">>),
        mustNewConstMetric(c.duration, stats.duration.other, <<device, "other">>),
        mustNewConstMetric(c.duration, stats.duration.read, <<device, "read">>),
        mustNewConstMetric(c.duration, stats.duration.write, <<device, "write">>),
        mustNewConstMetric(c.busyTime, stats.busyTime, <<device>>),
        mustNewConstMetric(c.blocks, stats.blocks, <<device>>) >>

\* The ten sends of one loop iteration, in order.  float64(x) of a counter is
\* x itself for every counter below 2^53, as all counters here are.
DevstatSamples(stats) ==
  LET c == NewDevstatCollector
      device == DeviceLabel(stats)
  IN << mustNewConstMetric(c.bytes, stats.bytes.read, <<device, "read">>),
        mustNewConstMetric(c.bytes, stats.bytes.write, <<device, "write">>),
        mustNewConstMetric(c.transfers, stats.transfers.other, <<device, "other">>),
        mustNewConstMetric(c.transfers, stats.transfers.read, <<device, "read">>),
        mustNewConstMetric(c.transfers, stats.transfers.write, <<device, "write">>),
        mustNewConstMetric(c.duration, stats.duration.other, <<device, "other">>),
        mustNewConstMetric(c.duration, stats.duration.read, <<device, "read">>),
        mustNewConstMetric(c.duration, stats.duration.write, <<device, "write">>),
        mustNewConstMetric(c.busyTime, stats.busyTime, <<device>>),
        mustNewConstMetric(c.blocks, stats.blocks, <<device>>) >>

\* The variant of the sentinel checks that misses the -2 sentinel.
EnumerationErrorNoAlloc(n) ==
  IF n = -1 THEN "devstat_getdevs() failed" ELSE "nil"

\* The error of a sentinel count, "nil" for a count that is no sentinel.
EnumerationError(n) ==
  IF n = -1 THEN "devstat_getdevs() failed"
  ELSE IF n = -2 THEN "calloc() failed"
  ELSE "nil"

\* The loop's initial statement, i := C.int(0), with the variant that keeps
\* the value the previous cycle left.
LoopStartStale == i

LoopStart == 0

\* The loop condition, i < count, with the variant that runs once more.
LoopContinuesInclusive(idx, n) == idx <= n

LoopContinues(idx, n) == idx < n

\* History: what one call _get_stats(idx) met: the size of the list it
\* fetched, the device it found at idx (0 for none) and the device idx
\* denoted when the cycle enumerated the list (0 for none).
QueryRecord(idx) ==
  [i |-> idx,
   numdevs |-> Len(FetchedDevs),
   found |-> IF idx < Len(FetchedDevs) THEN FetchedDevs[idx + 1] ELSE 0,
   enumerated |-> IF idx < Len(denum) THEN denum[idx + 1] ELSE 0]

Crashed == dpc = "crashed" \/ cpc = "panicked"

\* Update is called: count := C._get_ndevs(), and the two sentinel returns.
DevUpdateBegin ==
  /\ ~Crashed
  /\ dpc \in {"idle", "returned"}
  /\ dprev' = IF dpc = "returned" /\ dstable
              THEN <<[ch |-> devCh, err |-> devErr]>> ELSE <<>>
  /\ dstable' = TRUE
  /\ count' = _get_ndevs
  /\ i' = LoopStart
  /\ devCh' = <<>>
  /\ dqueries' = <<>>
  /\ denum' = FetchedDevs
  /\ dfail' = (kmode # "ok")
  /\ devErr' = EnumerationError(count')
  /\ dpc' = IF devErr' # "nil" THEN "returned" ELSE "loop"
  /\ UNCHANGED <<kvars, cvars>>

\* One iteration of the loop: stats := C._get_stats(i) and the ten sends.
DevUpdateLoop ==
  /\ ~Crashed
  /\ dpc = "loop"
  /\ LoopContinues(i, count)
  /\ dqueries' = Append(dqueries, QueryRecord(i))
  /\ dfail' = (dfail \/ ~(i < Len(FetchedDevs)))
  /\ \E o \in _get_stats(i) :
       \/ /\ o.kind = "stats"
          /\ devCh' = devCh \o DevstatSamples(o.stats)
          /\ i' = i + 1
          /\ dpc' = "loop"
       \/ /\ o.kind = "fault"
          /\ dpc' = "crashed"
          /\ UNCHANGED <<devCh, i>>
  /\ UNCHANGED <<count, devErr, denum, dstable, dprev, kvars, cvars>>

\* The loop ends: return err, which is nil.
DevUpdateReturn ==
  /\ ~Crashed
  /\ dpc = "loop"
  /\ ~LoopContinues(i, count)
  /\ dpc' = "returned"
  /\ UNCHANGED <<count, i, devCh, devErr, dqueries, denum, dfail, dstable, dprev,
                 kvars, cvars>>

(***************************************************************************)
(* Kernel events of the devstat side.                                      *)
(***************************************************************************)
\* A kernel event ends the period of unchanged kernel state.
DevEventEffect ==
  /\ kevents < MaxKernelEvents
  /\ kevents' = kevents + 1
  /\ dstable' = FALSE
  /\ dprev' = <<>>
  /\ UNCHANGED <<dpc, count, i, devCh, devErr, dqueries, denum, dfail, cvars,
                 kclock, kcp, ksysctl>>

KernelAttach ==
  /\ Len(kdevs) < MaxDevs
  /\ \E d \in DevIds :
       /\ \A a \in 1..Len(kdevs) : kdevs[a] # d
       /\ kdevs' = Append(kdevs, d)
  /\ UNCHANGED kmode
  /\ DevEventEffect

KernelDetach ==
  /\ \E a \in 1..Len(kdevs) :
       kdevs' = [b \in 1..(Len(kdevs) - 1) |-> IF b < a THEN kdevs[b] ELSE kdevs[b + 1]]
  /\ UNCHANGED kmode
  /\ DevEventEffect

KernelSetMode ==
  /\ \E m \in KernelModes \ {kmode} : kmode' = m
  /\ UNCHANGED kdevs
  /\ DevEventEffect

(***************************************************************************)
(* Floating point: a float64 quotient is kept as a reduced fraction, or as *)
(* the infinity or NaN a division by zero gives.                           *)
(***************************************************************************)
RECURSIVE Gcd(_, _)
Gcd(a, b) == IF b = 0 THEN a ELSE Gcd(b, a % b)

Abs(a) == IF a < 0 THEN -a ELSE a

\* float64(t) / cpufreq
FloatDiv(t, f) ==
  IF f = 0
  THEN [num |-> 0, den |-> 0,
        cls |-> IF t > 0 THEN "+Inf" ELSE IF t < 0 THEN "-Inf" ELSE "NaN"]
  ELSE LET g == Gcd(Abs(t), Abs(f))
           sgn == IF f < 0 THEN -1 ELSE 1
       IN [num |-> sgn * (t \div g), den |-> sgn * (f \div g), cls |-> "finite"]

\* The zero value of float64.
FloatZero == [num |-> 0, den |-> 1, cls |-> "finite"]

(***************************************************************************)
(* The kernel's clock record and per-CPU tick blob.                        *)
(***************************************************************************)
HzValues == {0, 120}
StathzValues == {-1, 0, 128}
Clocks == [hz : HzValues, stathz : StathzValues]

\* The tick counter the kernel holds at word j of kern.cp_times.
TickAt(j) == 10 * j

\* A blob of n whole native integers followed by t more bytes.
Blob(n, t) == [words |-> [j \in 1..n |-> TickAt(j)], tail |-> t]
Blobs == {Blob(n, t) : n \in 0..MaxInts, t \in 0..MaxTail}

\* len(cpb), in bytes.
ByteLen(cpb) == Len(cpb.words) * NativeWidth + cpb.tail

SysctlModes == {"ok", "clockrate_fail", "cp_times_fail"}

\* The error unix.SysctlRaw(name) returns when the call fails.
SysctlError(name) == "sysctl " \o name \o " failed"

(***************************************************************************)
(* getCPUTimes                                                             *)
(***************************************************************************)
\* The variant of the frequency choice that accepts a zero stathz.
CpufreqNonNegative(clock) == IF clock.stathz >= 0 THEN clock.stathz ELSE clock.hz

\* The conversion frequency: clock.stathz when positive, else clock.hz.
Cpufreq(clock) == IF clock.stathz > 0 THEN clock.stathz ELSE clock.hz

\* for len(cpb) >= int(unsafe.Sizeof(int(0))) { times = append(times, ...) }
RECURSIVE ParseTimes(_, _)
ParseTimes(cpb, cpufreq) ==
  IF ByteLen(cpb) >= NativeWidth
  THEN <<FloatDiv(Head(cpb.words), cpufreq)>>
         \o ParseTimes([cpb EXCEPT !.words = Tail(cpb.words)], cpufreq)
  ELSE <<>>

\* cpus := make([]cputime, len(times)/states)
MakeCpus(times) ==
  [c \in 1..(Len(times) \div states) |->
     [user |-> FloatZero, nice |-> FloatZero, sys |-> FloatZero,
      intr |-> FloatZero, idle |-> FloatZero]]

\* for i := 0; i < len(times); i += states { cpu := &cpus[i/states]; ... }
\* An index outside cpus or times is a run-time panic.
RECURSIVE FillCpus(_, _, _)
FillCpus(times, cpus, idx) ==
  IF ~(idx < Len(times)) THEN [panic |-> FALSE, cpus |-> cpus]
  ELSE IF ~(idx \div states < Len(cpus)) THEN [panic |-> TRUE, cpus |-> cpus]
  ELSE IF ~(idx + 4 < Len(times)) THEN [panic |-> TRUE, cpus |-> cpus]
  ELSE FillCpus(times,
                [cpus EXCEPT ![(idx \div states) + 1] =
                   [user |-> times[idx + 1], nice |-> times[idx + 2],
                    sys |-> times[idx + 3], intr |-> times[idx + 4],
                    idle |-> times[idx + 5]]],
                idx + states)

\* func getCPUTimes() ([]cputime, error): "err" when a sysctl fails, "panic"
\* when an index is out of range, else the records.
getCPUTimes ==
  IF ksysctl = "clockrate_fail"
  THEN [kind |-> "err", cpus |-> <<>>, err |-> SysctlError("kern.clockrate")]
  ELSE IF ksysctl = "cp_times_fail"
  THEN [kind |-> "err", cpus |-> <<>>, err |-> SysctlError("kern.cp_times")]
  ELSE LET times == ParseTimes(kcp, Cpufreq(kclock))
           filled == FillCpus(times, MakeCpus(times), 0)
       IN IF filled.panic
          THEN [kind |-> "panic", cpus |-> <<>>, err |-> "nil"]
          ELSE [kind |-> "ok", cpus |-> filled.cpus, err |-> "nil"]

(***************************************************************************)
(* statCollector.Update                                                    *)
(***************************************************************************)
\* The five sends of one loop iteration: the index offset and the mode label.
CpuSends ==
  << [off |-> CP_USER, mode |-> "user"],
     [off |-> CP_NICE, mode |-> "nice"],
     [off |-> CP_SYS, mode |-> "system"],
     [off |-> CP_INTR, mode |-> "interrupt"],
     [off |-> CP_IDLE, mode |-> "idle"] >>

\* The operand of a send: cpuTimes[base_idx+C.CP_x], an element of the record
\* slice getCPUTimes returned; the index does not depend on the loop variable.
SendOperand(times, off) ==
  LET idx == base_idx + off
  IN IF idx >= 0 /\ idx < Len(times)
     THEN [panic |-> FALSE, value |-> times[idx + 1]]
     ELSE [panic |-> TRUE, value |-> FloatZero]

\* for cpu, t := range cpuTimes { five sends }: the sends from position p on
\* (send p is send p % 5 of iteration p / 5), stopping at a panic.
RECURSIVE EmitCpu(_, _, _)
EmitCpu(times, p, ch) ==
  IF p >= Len(times) * Len(CpuSends) THEN [panic |-> FALSE, ch |-> ch]
  ELSE LET cpu == p \div Len(CpuSends)
           snd == CpuSends[(p % Len(CpuSends)) + 1]
           opd == SendOperand(times, snd.off)
       IN IF opd.panic THEN [panic |-> TRUE, ch |-> ch]
          ELSE EmitCpu(times, p + 1,
                       Append(ch, mustNewConstMetric(NewStatCollector.cpu, opd.value,
                                                     <<Itoa(cpu), snd.mode>>)))

\* One call of statCollector.Update.
CpuUpdate ==
  /\ ~Crashed
  /\ cpc \in {"idle", "returned"}
  /\ cprev' = IF cpc = "returned" /\ cstable
              THEN <<[ch |-> cpuCh, err |-> cpuErr, cpus |-> cpuTimes]>> ELSE <<>>
  /\ cstable' = TRUE
  /\ cclock' = kclock
  /\ craw' = kcp
  /\ LET got == getCPUTimes
         sent == EmitCpu(got.cpus, 0, <<>>)
     IN \/ /\ got.kind = "err"
           /\ cpuTimes' = <<>>
           /\ cpuCh' = <<>>
           /\ cpuErr' = got.err
           /\ cpc' = "returned"
        \/ /\ got.kind = "panic"
           /\ cpuTimes' = <<>>
           /\ cpuCh' = <<>>
           /\ cpuErr' = "nil"
           /\ cpc' = "panicked"
        \/ /\ got.kind = "ok"
           /\ cpuTimes' = got.cpus
           /\ cpuCh' = sent.ch
           /\ cpuErr' = "nil"
           /\ cpc' = IF sent.panic THEN "panicked" ELSE "returned"
  /\ UNCHANGED <<base_idx, kvars, dvars>>

(***************************************************************************)
(* Kernel events of the cpu side.                                          *)
(***************************************************************************)
CpuEventEffect ==
  /\ kevents < MaxKernelEvents
  /\ kevents' = kevents + 1
  /\ cstable' = FALSE
  /\ cprev' = <<>>
  /\ UNCHANGED <<base_idx, cpc, cpuTimes, cpuCh, cpuErr, cclock, craw, dvars,
                 kdevs, kmode>>

KernelSetClock ==
  /\ \E c \in Clocks \ {kclock} : kclock' = c
  /\ UNCHANGED <<kcp, ksysctl>>
  /\ CpuEventEffect

\* The blob gains or loses a word, or its trailing bytes change.
KernelSetCp ==
  /\ \/ /\ Len(kcp.words) < MaxInts
        /\ kcp' = Blob(Len(kcp.words) + 1, kcp.tail)
     \/ /\ Len(kcp.words) > 0
        /\ kcp' = Blob(Len(kcp.words) - 1, kcp.tail)
     \/ \E t \in (0..MaxTail) \ {kcp.tail} : kcp' = Blob(Len(kcp.words), t)
  /\ UNCHANGED <<kclock, ksysctl>>
  /\ CpuEventEffect

KernelSetSysctl ==
  /\ \E m \in SysctlModes \ {ksysctl} : ksysctl' = m
  /\ UNCHANGED <<kclock, kcp>>
  /\ CpuEventEffect

(***************************************************************************)
(* Specifications.                                                         *)
(***************************************************************************)
\* The kernel state the combined specification starts from.
BootDevs == <<1, 2>>
BootClock == [hz |-> 120, stathz |-> 128]
BootBlob == Blob((MaxInts \div states) * states, 0)

InitProgram ==
  /\ kevents = 0
  /\ dpc = "idle" /\ count = 0 /\ i = 0 /\ devCh = <<>> /\ devErr = "nil"
  /\ dqueries = <<>> /\ denum = <<>> /\ dfail = FALSE
  /\ dstable = TRUE /\ dprev = <<>>
  /\ base_idx \in 0..MaxBaseIdx
  /\ cpc = "idle" /\ cpuTimes = <<>> /\ cpuCh = <<>> /\ cpuErr = "nil"
  /\ cclock = BootClock /\ craw = Blob(0, 0)
  /\ cstable = TRUE /\ cprev = <<>>

DevNext ==
  \/ DevUpdateBegin \/ DevUpdateLoop \/ DevUpdateReturn
  \/ KernelAttach \/ KernelDetach \/ KernelSetMode

CpuNext ==
  \/ CpuUpdate
  \/ KernelSetClock \/ KernelSetCp \/ KernelSetSysctl

\* Both collectors, interleaved, from the boot state of the kernel.
Init ==
  /\ kdevs = BootDevs /\ kmode = "ok"
  /\ kclock = BootClock /\ kcp = BootBlob /\ ksysctl = "ok"
  /\ InitProgram

Next == DevNext \/ CpuNext

Spec == Init /\ [][Next]_vars

\* The devstat collector alone, from every kernel device state.
InitDev ==
  /\ kdevs \in DevLists /\ kmode \in KernelModes
  /\ kclock = BootClock /\ kcp = BootBlob /\ ksysctl = "ok"
  /\ InitProgram

SpecDev == InitDev /\ [][DevNext]_vars

\* The cpu collector alone, from every clock record and blob.
InitCpu ==
  /\ kdevs = BootDevs /\ kmode = "ok"
  /\ kclock \in Clocks /\ kcp \in Blobs /\ ksysctl \in SysctlModes
  /\ InitProgram

SpecCpu == InitCpu /\ [][CpuNext]_vars

(***************************************************************************)
(* Properties.                                                             *)
(***************************************************************************)
\* The type label of a sample: its second label value, "" when it has none.
TypeOf(s) == IF Len(s.labels) >= 2 THEN s.labels[2] ELSE ""

\* The samples of devCh that belong to the g-th loop iteration (g from 0),
\* with per samples in each iteration.
GroupOf(ch, g, per) == SubSeq(ch, g * per + 1, (g + 1) * per)

\* A cycle of the devstat collector returned after a successful enumeration
\* with per samples for each device: the queries were 0..count-1 in order and
\* every group of per samples carries one device label.
EnumeratedCycleShape(per) ==
  (dpc = "returned" /\ count >= 0) =>
    /\ Len(dqueries) = count
    /\ \A q \in 1..Len(dqueries) : dqueries[q].i = q - 1
    /\ Len(devCh) = per * count
    /\ \A g \in 0..(count - 1) :
         \A a \in 1..per :
           GroupOf(devCh, g, per)[a].labels[1] = GroupOf(devCh, g, per)[1].labels[1]

\* C1 as stated: after a successful enumeration of N devices a cycle performs
\* N queries, indices 0..N-1 in increasing order, and emits N device-labelled
\* groups of 9 samples, 9*N samples in total.
C1_NineSamplesPerDevice == EnumeratedCycleShape(9)

\* C1 amended: after a successful enumeration of N devices a cycle that
\* returns has performed N queries, indices 0..N-1 in increasing order, and
\* emitted N device-labelled groups of 10 samples, 10*N samples in total.
C1_TenSamplesPerDevice == EnumeratedCycleShape(10)

\* A cycle over three devices returned with thirty samples.
C1_Witness ==
  /\ dpc = "returned" /\ count = 3
  /\ Len(dqueries) = 3 /\ Len(devCh) = 30

\* C2: a cycle whose enumeration returned -1 ends with no sample, no
\* per-device query and the query-failure error; one whose enumeration
\* returned -2 ends with no sample, no per-device query and the
\* allocation-failure error; the two errors differ.
C2_SentinelsAbortCycle ==
  /\ (dpc # "idle" /\ count = -1) =>
       /\ dpc = "returned"
       /\ devCh = <<>> /\ dqueries = <<>>
       /\ devErr = "devstat_getdevs() failed"
  /\ (dpc # "idle" /\ count = -2) =>
       /\ dpc = "returned"
       /\ devCh = <<>> /\ dqueries = <<>>
       /\ devErr = "calloc() failed"

\* A cycle ended on the allocation-failure sentinel.
C2_Witness ==
  /\ dpc = "returned" /\ count = -2 /\ kmode = "calloc_fail"
  /\ devErr = "calloc() failed" /\ devCh = <<>>

\* The (metric, type) pairs of the samples one device gets.
DeviceSampleKinds ==
  { <<"bytes_total", "read">>, <<"bytes_total", "write">>,
    <<"transfers_total", "other">>, <<"transfers_total", "read">>,
    <<"transfers_total", "write">>,
    <<"duration_seconds_total", "other">>, <<"duration_seconds_total", "read">>,
    <<"duration_seconds_total", "write">>,
    <<"busy_time_seconds_total", "">>, <<"blocks_transferred_total", "">> }

\* C3 as stated: a cycle that read a blob whose byte length is no multiple of
\* 5 * nativeWidth returns a decode error and no record, and does not abort.
C3_MalformedBlobRejected ==
  (/\ cpc # "idle"
   /\ cpuErr \notin {SysctlError("kern.clockrate"), SysctlError("kern.cp_times")}
   /\ ByteLen(craw) % (5 * NativeWidth) # 0)
  => /\ cpc = "returned"
     /\ cpuErr # "nil"
     /\ cpuTimes = <<>>
     /\ cpuCh = <<>>

\* C4 as stated: a cycle that read a clock record whose stathz and hz are both
\* non-positive returns a decode error and emits no sample.
C4_NonPositiveFrequencyRejected ==
  (/\ cpc # "idle"
   /\ cpuErr \notin {SysctlError("kern.clockrate"), SysctlError("kern.cp_times")}
   /\ cclock.stathz <= 0 /\ cclock.hz <= 0)
  => /\ cpc = "returned"
     /\ cpuErr # "nil"
     /\ cpuCh = <<>>

\* The five values of a record, in the order user, nice, system, interrupt, idle.
FieldsOf(t) == <<t.user, t.nice, t.sys, t.intr, t.idle>>

\* The float v is the quotient raw / f.
IsQuotient(v, raw, f) ==
  IF f = 0 THEN v.cls # "finite"
  ELSE v.cls = "finite" /\ v.den # 0 /\ v.num * f = raw * v.den

\* C5: every value of the records a cycle decoded is the raw tick divided by
\* one frequency, taken from the clock record that cycle read: its stathz
\* when that is greater than zero, and otherwise its hz.
C5_FrequencyFallback ==
  \A c \in 1..Len(cpuTimes) : \A k \in 1..5 :
    /\ cclock.stathz > 0 =>
         IsQuotient(FieldsOf(cpuTimes[c])[k], craw.words[5 * (c - 1) + k], cclock.stathz)
    /\ ~(cclock.stathz > 0) =>
         IsQuotient(FieldsOf(cpuTimes[c])[k], craw.words[5 * (c - 1) + k], cclock.hz)

\* A cycle read stathz = 0 and hz = 120 and decoded the first tick, 10, as 10/120.
C5_Witness ==
  /\ cclock.stathz = 0 /\ cclock.hz = 120
  /\ Len(cpuTimes) >= 1
  /\ cpuTimes[1].user = [num |-> 1, den |-> 12, cls |-> "finite"]

\* The sample C6 expects at position p (from 1) for the blob raw and frequency f.
ExpectedCpuSample(raw, f, p) ==
  [subsystem |-> "cpu", name |-> "seconds_total",
   value |-> FloatDiv(raw.words[p], f),
   labels |-> << Itoa((p - 1) \div 5),
                 <<"user", "nice", "system", "interrupt", "idle">>[((p - 1) % 5) + 1] >>]

\* C6 as stated: a cycle that read a blob of exactly 5 * cpuCount integers and
\* a positive frequency f decodes cpuCount records and emits 5 * cpuCount
\* samples, the one for cpu c and state k carrying raw[5*c + k] / f.
C6_FiveSamplesPerCpu ==
  (/\ cpc # "idle"
   /\ cpuErr = "nil"
   /\ craw.tail = 0 /\ Len(craw.words) % 5 = 0
   /\ (IF cclock.stathz > 0 THEN cclock.stathz ELSE cclock.hz) > 0)
  => LET f == IF cclock.stathz > 0 THEN cclock.stathz ELSE cclock.hz
     IN /\ cpc = "returned"
        /\ Len(cpuTimes) * 5 = Len(craw.words)
        /\ cpuCh = [p \in 1..Len(craw.words) |-> ExpectedCpuSample(craw, f, p)]

\* C7: the samples each device label gets are exactly the kinds of
\* DeviceSampleKinds, ten for each loop iteration; no sample has the type
\* "free" and no bytes_total sample has the type "other".
C7_EmittedKinds ==
  /\ Len(devCh) % 10 = 0
  /\ \A a \in 1..Len(devCh) :
       /\ TypeOf(devCh[a]) # "free"
       /\ ~(devCh[a].name = "bytes_total" /\ TypeOf(devCh[a]) = "other")
  /\ \A dev \in {devCh[a].labels[1] : a \in 1..Len(devCh)} :
       { <<devCh[b].name, TypeOf(devCh[b])>> :
           b \in {x \in 1..Len(devCh) : devCh[x].labels[1] = dev} }
         = DeviceSampleKinds

\* A cycle returned with the samples of two devices.
C7_Witness ==
  /\ dpc = "returned" /\ Len(devCh) = 20
  /\ devCh[1].labels[1] # devCh[11].labels[1]

\* C8 as stated: a cycle in which a kernel call or a device lookup failed
\* returns a reported error and has sent no sample.
C8_NoPartialSamples ==
  (dpc = "returned" /\ dfail) => (devErr # "nil" /\ devCh = <<>>)

\* C9: a cycle that returns, when no kernel event happened since the previous
\* cycle of the same collector began, returns what that cycle returned: the
\* same samples in the same order and the same error (for the cpu collector
\* the same decoded records too).
C9_Idempotent ==
  /\ (dpc = "returned" /\ dstable /\ dprev # <<>>) =>
       dprev[1] = [ch |-> devCh, err |-> devErr]
  /\ (cpc = "returned" /\ cstable /\ cprev # <<>>) =>
       cprev[1] = [ch |-> cpuCh, err |-> cpuErr, cpus |-> cpuTimes]

\* Both collectors returned a second time, with samples, under an unchanged kernel.
C9_Witness ==
  /\ dpc = "returned" /\ dstable /\ dprev # <<>> /\ Len(devCh) >= 10
  /\ cpc = "returned" /\ cstable /\ cprev # <<>> /\ Len(cpuCh) >= 5

\* C10 as stated: every call _get_stats(i) of a cycle reads an entry that
\* exists in the list the call fetched, and that entry is the device index i
\* denoted when the cycle enumerated the list.
C10_QueryReadsEnumeratedDevice ==
  \A q \in 1..Len(dqueries) :
    /\ dqueries[q].i < dqueries[q].numdevs
    /\ dqueries[q].found = dqueries[q].enumerated

====
